---- MODULE Spec2Model ----
(***************************************************************************)
(* Model of sisenco_label_generator_v1_1.py: the address splitter, the     *)
(* identifier formatting, the label composer, the selection filter, the    *)
(* grid paginator and the Streamlit session around them.                   *)
(*                                                                         *)
(* A Python str is a sequence of one-character strings.  A DataFrame cell  *)
(* is either such a sequence or NaN (what pandas loads for an empty cell). *)
(***************************************************************************)
EXTENDS Integers, Sequences, FiniteSets, TLC

VARIABLES
    pc,             \* position of the session / of the function under check
    args,           \* arguments of the helper function under check
    ret,            \* what that helper function returned
    product_type,   \* st.radio "Select product type:"
    uploaded_file,  \* st.file_uploader: NoFile, Unreadable or the table
    selection,      \* the selection widget: method and its value
    input_ids,      \* input_ids of the last script run
    selected_rows,  \* index labels of the rows pd.concat produced
    notice,         \* the last message the script run ended with
    button_offered, \* st.button("Generate Labels PDF") was rendered
    tmpfiles,       \* transient files that exist on disk
    idx,            \* enumerate index of the rendering loop
    pages,          \* number of c.showPage() calls so far
    cells,          \* per rendered record: <<page, row_pos, col>>
    drawn           \* per rendered record: its lines_to_draw

vars == <<pc, args, ret, product_type, uploaded_file, selection, input_ids,
          selected_rows, notice, button_offered, tmpfiles, idx, pages, cells,
          drawn>>

(***************************************************************************)
(* Bounds of the model.                                                    *)
(***************************************************************************)
MaxAddrLen == 5      \* longest address drawn exhaustively for split_address
MaxIdLen == 5        \* longest identifier drawn for the id formatting
MaxTableRows == 4    \* rows of a table drawn for the selection filter
MaxRequest == 3      \* requested identifiers drawn for the selection filter
MaxRecords == 34     \* records rendered by the paginator
MaxSessionRows == 2  \* rows of a table uploaded in the session
MaxTxtLines == 1     \* lines of an uploaded identifier list
MaxPicked == 2       \* identifiers picked in the multi-select
MaxTmpFiles == 1     \* transient files a session is followed up to

(***************************************************************************)
(* Python str helpers.                                                     *)
(***************************************************************************)
Rep(c, n) == [i \in 1..n |-> c]

Digits == <<"0", "1", "2", "3", "4", "5", "6", "7", "8", "9">>

\* float('nan'): pandas' value of an empty cell
NaN == <<"NaN">>

\* str(x) of a cell value
str(x) == IF x = NaN THEN <<"n", "a", "n">> ELSE x

isspace(c) == c = " "

RECURSIVE lstrip(_)
lstrip(s) == IF s # <<>> /\ isspace(Head(s)) THEN lstrip(Tail(s)) ELSE s

RECURSIVE rstrip(_)
rstrip(s) ==
    IF s # <<>> /\ isspace(s[Len(s)]) THEN rstrip(SubSeq(s, 1, Len(s) - 1))
    ELSE s

\* str.strip()
strip(s) == rstrip(lstrip(s))

\* pd.isna(x)
isna(x) == x = NaN

\* str.rfind(','): zero-based index of the last comma, -1 when there is none
rfind_comma(s) ==
    IF \E i \in 1..Len(s) : s[i] = ","
    THEN (CHOOSE i \in 1..Len(s) :
              s[i] = "," /\ \A j \in (i + 1)..Len(s) : s[j] # ",") - 1
    ELSE -1

\* s[:n] and s[n:]
Prefix(s, n) == SubSeq(s, 1, n)
Suffix(s, n) == SubSeq(s, n + 1, Len(s))

DEFAULT_MAX_LINE_LENGTH == 30

\* a splitter that takes the first comma instead of the last
split_point_first(address) ==
    IF \E i \in 1..Len(address) : address[i] = ","
    THEN (CHOOSE i \in 1..Len(address) :
              address[i] = "," /\ \A j \in 1..(i - 1) : address[j] # ",") - 1
    ELSE -1

\* line 28: the comma split_address splits at
split_point(address) == rfind_comma(address)

split_address(address, max_line_length) ==
    IF isna(address) \/ strip(str(address)) = <<>> THEN << <<>> >>
    ELSE LET a == strip(str(address))
             last_comma == split_point(a)
         IN  IF Len(a) <= max_line_length THEN <<a>>
             ELSE IF last_comma = -1 THEN <<a>>
             ELSE <<strip(Prefix(a, last_comma + 1)),
                    strip(Suffix(a, last_comma + 1))>>

(***************************************************************************)
(* Product type, column mapping and identifier formatting.                 *)
(***************************************************************************)
Theory == "Theory (Student Labels)"
Paper == "Paper (Product Labels)"
ProductTypes == {Theory, Paper}

\* product_type.startswith(<blue circle>): true of the Paper option only
is_paper(pt) == pt = Paper

\* (ID_COL, NAME_COL, ADDRESS_COL, MOBILE1_COL, MOBILE2_COL)
col_map(pt) == IF pt = Theory THEN <<0, 2, 3, 8, 9>> ELSE <<0, 2, 3, 7, 8>>

\* characters str.isdigit accepts: the decimal digits and, among others,
\* the superscript digits ("sup2" stands for U+00B2), which int() rejects
IsDigitChar(c) == (\E i \in 1..10 : Digits[i] = c) \/ c = "sup2"
IsDecimalChar(c) == \E i \in 1..10 : Digits[i] = c

\* str.isdigit()
isdigit(s) == s # <<>> /\ \A i \in 1..Len(s) : IsDigitChar(s[i])

DigitVal(c) == (CHOOSE i \in 1..10 : Digits[i] = c) - 1

\* int(s) of a string that int() accepts
RECURSIVE int(_)
int(s) ==
    IF s = <<>> THEN 0
    ELSE int(SubSeq(s, 1, Len(s) - 1)) * 10 + DigitVal(s[Len(s)])

\* int(s) raises ValueError
int_raises(s) == \E i \in 1..Len(s) : ~IsDecimalChar(s[i])

RECURSIVE decimal(_)
decimal(n) ==
    IF n < 10 THEN <<Digits[n + 1]>>
    ELSE decimal(n \div 10) \o <<Digits[(n % 10) + 1]>>

ID_PAD_WIDTH == 4

\* a formatter that keeps the last four digits only
format_04d_truncating(n) ==
    LET d == decimal(n % 10000)
    IN  Rep("0", ID_PAD_WIDTH - Len(d)) \o d

\* format(n, "04d")
format_04d(n) ==
    LET d == decimal(n)
    IN  IF Len(d) >= ID_PAD_WIDTH THEN d
        ELSE Rep("0", ID_PAD_WIDTH - Len(d)) \o d

\* f"P - {int(student_id):04d}"
paper_id(student_id) == <<"P", " ", "-", " ">> \o format_04d(int(student_id))

ValueError == <<"ValueError">>
IndexError == <<"IndexError">>
ZeroDivisionError == <<"ZeroDivisionError">>

\* lines 65, 71-73: the identifier as the document shows it
pdf_student_id(cell, pt) ==
    LET student_id == strip(str(cell))
    IN  IF is_paper(pt)
        THEN IF isdigit(student_id)
             THEN IF int_raises(student_id) THEN ValueError
                  ELSE paper_id(student_id)
             ELSE student_id
        ELSE student_id

\* lines 211-213: the identifier as the preview shows it
preview_student_id(cell, pt) ==
    LET student_id == strip(str(cell))
    IN  IF is_paper(pt) /\ isdigit(student_id)
        THEN IF int_raises(student_id) THEN ValueError
             ELSE paper_id(student_id)
        ELSE student_id

(***************************************************************************)
(* Label text composer.  A row is the sequence of its cells; row.iloc[k]   *)
(* is row[k + 1] and raises IndexError when the row has no column k.       *)
(***************************************************************************)
iloc(row, k) == row[k + 1]

has_columns(row, pt) == \A i \in 1..5 : col_map(pt)[i] < Len(row)

field(row, pt, i) == strip(str(iloc(row, col_map(pt)[i])))

\* label_lines.append(x) if x: (a non-empty str is truthy)
append_if(x) == IF x # <<>> THEN <<x>> ELSE <<>>

\* lines 76-82: [name] + address lines + phones + identifier
label_lines(row, pt) ==
    <<field(row, pt, 2)>>
        \o split_address(field(row, pt, 3), DEFAULT_MAX_LINE_LENGTH)
        \o append_if(field(row, pt, 4))
        \o append_if(field(row, pt, 5))
        \o <<pdf_student_id(iloc(row, 0), pt)>>

\* a clean-up that keeps every line
drop_blank_none(lines) == lines

\* line 85: [line for line in label_lines if line.strip()]
drop_blank(lines) == SelectSeq(lines, LAMBDA line : strip(line) # <<>>)

max_label_lines == 6

\* lines 85-87
lines_to_draw(row, pt) ==
    LET kept == drop_blank(label_lines(row, pt))
    IN  SubSeq(kept, 1, IF Len(kept) < max_label_lines THEN Len(kept)
                        ELSE max_label_lines)

\* what composing and spacing one label ends with: an exception of lines
\* 64-73 or of line 92, else "ok"
label_outcome(row, pt) ==
    IF ~has_columns(row, pt) THEN IndexError
    ELSE IF pdf_student_id(iloc(row, 0), pt) = ValueError THEN ValueError
    ELSE IF Len(lines_to_draw(row, pt)) = 0 THEN ZeroDivisionError
    ELSE <<"ok">>

\* lines 210-225: the preview of one row, an exception or its lines
label_preview(row, pt) ==
    IF Len(row) <= col_map(pt)[2] \/ Len(row) <= col_map(pt)[1]
    THEN IndexError
    ELSE IF preview_student_id(iloc(row, 0), pt) = ValueError THEN ValueError
    ELSE IF ~has_columns(row, pt) THEN IndexError
    ELSE <<field(row, pt, 2)>>
             \o split_address(field(row, pt, 3), DEFAULT_MAX_LINE_LENGTH)
             \o append_if(field(row, pt, 4))
             \o append_if(field(row, pt, 5))
             \o <<preview_student_id(iloc(row, 0), pt)>>

(***************************************************************************)
(* Selection filter, lines 199-202.  df is the sequence of the table's     *)
(* rows; a selected row is named by its index label (its position in df).  *)
(***************************************************************************)
ID_COL == 0

\* df.iloc[:, ID_COL].astype(str)
all_ids(df) == [i \in 1..Len(df) |-> str(iloc(df[i], ID_COL))]

\* a filter that keeps the first matching row only
matching_rows_first(df, id_) ==
    LET m == SelectSeq([i \in 1..Len(df) |-> i],
                       LAMBDA i : str(iloc(df[i], ID_COL)) = id_)
    IN  SubSeq(m, 1, IF Len(m) > 1 THEN 1 ELSE Len(m))

\* df[df.iloc[:, ID_COL].astype(str) == id_]: the matching rows, in df's order
matching_rows(df, id_) ==
    SelectSeq([i \in 1..Len(df) |-> i], LAMBDA i : all_ids(df)[i] = id_)

\* a filter that ignores the request order: the matching rows in df's order
concat_matches_source_order(df, ids) ==
    SelectSeq([i \in 1..Len(df) |-> i],
              LAMBDA i : \E j \in 1..Len(ids) :
                             str(iloc(df[i], ID_COL)) = ids[j])

\* pd.concat([... for id_ in input_ids])
RECURSIVE concat_matches(_, _)
concat_matches(df, ids) ==
    IF ids = <<>> THEN <<>>
    ELSE matching_rows(df, Head(ids)) \o concat_matches(df, Tail(ids))

(***************************************************************************)
(* Inputs the checks draw from.                                            *)
(***************************************************************************)
RECURSIVE SeqsUpTo(_, _)
SeqsUpTo(S, n) ==
    IF n = 0 THEN {<<>>}
    ELSE LET shorter == SeqsUpTo(S, n - 1)
         IN  shorter \cup {Append(q, c) : q \in shorter, c \in S}

None == <<"None">>
filler == <<"x">>

\* a ten-column row: id, name, address and the cells of columns 7, 8 and 9
MkRow(id, name, address, c7, c8, c9) ==
    <<id, filler, name, address, filler, filler, filler, c7, c8, c9>>

SmallLineLength == 3

\* addresses longer than the default limit of 30
LongCommaEarly ==
    Rep("a", 10) \o <<",", " ">> \o Rep("b", 10) \o <<",", " ">> \o Rep("c", 12)
LongCommaLate == Rep("a", 33) \o <<",", " ">> \o Rep("b", 3)
LongNoComma == Rep("a", 35)
LongTwoCommas == Rep("a", 10) \o <<",">> \o Rep("b", 25) \o <<",">> \o Rep("c", 3)
LongTrailingComma == Rep("a", 31) \o <<",">>
LongAddresses ==
    {LongCommaEarly, LongCommaLate, LongNoComma, LongTwoCommas,
     LongTrailingComma}

SplitInputs ==
    [address : SeqsUpTo({"a", ",", " "}, MaxAddrLen) \cup {NaN},
     max_line_length : 2..SmallLineLength]
    \cup [address : LongAddresses \cup {NaN},
          max_line_length : {DEFAULT_MAX_LINE_LENGTH}]

FormatInputs ==
    [cell : SeqsUpTo({"0", "7", "a", " ", "sup2"}, MaxIdLen) \cup {NaN},
     product_type : ProductTypes]

IdCells == {<<"7">>, <<"a", "1">>, <<" ">>, NaN}
NameCells == {<<"N", "o">>, <<" ">>, NaN}
AddressCells == {<<"1", ",", " ", "R", "d">>, LongCommaEarly, <<" ">>, NaN}
PhoneCells == {<<"0", "7", "1">>, <<" ">>, NaN}

WideRows ==
    {MkRow(i, n, a, c7, c8, c9) :
         i \in IdCells, n \in NameCells, a \in AddressCells,
         c7 \in PhoneCells, c8 \in PhoneCells, c9 \in PhoneCells}

\* the same rows in a file of nine columns
NarrowRows == {SubSeq(r, 1, 9) : r \in WideRows}

LabelInputs == [row : WideRows \cup NarrowRows, product_type : ProductTypes]

IdRow(id) == MkRow(id, <<"N">>, <<"A">>, NaN, NaN, NaN)

SelectInputs ==
    [df : {[i \in 1..Len(t) |-> IdRow(t[i])] :
               t \in SeqsUpTo({<<"A">>, <<"B">>, <<"C">>}, MaxTableRows)
                     \ {<<>>}},
     input_ids : SeqsUpTo({<<"A">>, <<"B">>, <<"Z">>}, MaxRequest) \ {<<>>}]

(***************************************************************************)
(* State of a session in which nothing is uploaded or chosen yet.          *)
(***************************************************************************)
\* values of the file uploader that are no table (shaped like one)
NoFile == << << <<"NoFile">> >> >>
Unreadable == << << <<"Unreadable">> >> >>

sessionVars ==
    <<product_type, uploaded_file, selection, input_ids, selected_rows, notice,
      button_offered, tmpfiles>>
renderVars == <<idx, pages, cells, drawn>>

FreshSession ==
    /\ product_type = Theory
    /\ uploaded_file = NoFile
    /\ selection = [method |-> "Choose from list", value |-> <<>>]
    /\ input_ids = <<>>
    /\ selected_rows = <<>>
    /\ notice = "Upload your file to begin."
    /\ button_offered = FALSE
    /\ tmpfiles = 0

NoRendering ==
    /\ idx = 0
    /\ pages = 0
    /\ cells = <<>>
    /\ drawn = <<>>

\* a new canvas, or none
ResetRendering ==
    /\ idx' = 0
    /\ pages' = 0
    /\ cells' = <<>>
    /\ drawn' = <<>>

(***************************************************************************)
(* The helper functions, each applied to inputs drawn from a bounded set.  *)
(***************************************************************************)
InitCall(inputs) ==
    /\ pc = "call"
    /\ args \in inputs
    /\ ret = None
    /\ FreshSession
    /\ NoRendering

Return(value) ==
    /\ pc = "call"
    /\ pc' = "returned"
    /\ ret' = value
    /\ UNCHANGED <<args, sessionVars, renderVars>>

CallSplitAddress == Return(split_address(args.address, args.max_line_length))

CallFormatId ==
    Return([pdf |-> pdf_student_id(args.cell, args.product_type),
            preview |-> preview_student_id(args.cell, args.product_type)])

CallComposeLabel ==
    Return([outcome |-> label_outcome(args.row, args.product_type),
            lines_to_draw |->
                IF label_outcome(args.row, args.product_type)
                       \in {IndexError, ValueError}
                THEN <<>>
                ELSE lines_to_draw(args.row, args.product_type)])

CallSelect == Return(concat_matches(args.df, args.input_ids))

SpecSplit == InitCall(SplitInputs) /\ [][CallSplitAddress]_vars
SpecFormat == InitCall(FormatInputs) /\ [][CallFormatId]_vars
SpecLabel == InitCall(LabelInputs) /\ [][CallComposeLabel]_vars
SpecSelect == InitCall(SelectInputs) /\ [][CallSelect]_vars

(***************************************************************************)
(* Grid paginator, lines 42-105.  One step of the loop per action; pages   *)
(* counts the pages closed so far (c.showPage(), and c.save() for the      *)
(* last one).                                                              *)
(***************************************************************************)
cols_per_page == 2
rows_per_page == 8

\* a paginator that starts the new page one record late
new_page_late(i) == i > 1 /\ i % (cols_per_page * rows_per_page) = 1

\* line 48: the record starts a new page
new_page(i) == i > 0 /\ i % (cols_per_page * rows_per_page) = 0

\* lines 51-53: <<row_pos, col>> of the i-th record
grid_cell(i) ==
    LET pos_in_page == i % (cols_per_page * rows_per_page)
    IN  <<pos_in_page \div cols_per_page, pos_in_page % cols_per_page>>

\* line 48-49: pages closed once record i is reached
pages_at(i, closed) == IF new_page(i) THEN closed + 1 ELSE closed

current_row == uploaded_file[selected_rows[idx + 1]]

\* lines 47-103 for a record whose label is composed and drawn
RenderRecord ==
    /\ pc = "render"
    /\ idx < Len(selected_rows)
    /\ label_outcome(current_row, product_type) = <<"ok">>
    /\ pages' = pages_at(idx, pages)
    /\ cells' = Append(cells, <<pages'>> \o grid_cell(idx))
    /\ drawn' = Append(drawn, lines_to_draw(current_row, product_type))
    /\ idx' = idx + 1
    /\ UNCHANGED <<pc, args, ret, sessionVars>>

\* lines 47-92 for a record on which composing or spacing the label raises:
\* the page break and the border are done, no text is drawn
RenderRaise ==
    /\ pc = "render"
    /\ idx < Len(selected_rows)
    /\ label_outcome(current_row, product_type) # <<"ok">>
    /\ pages' = pages_at(idx, pages)
    /\ cells' = Append(cells, <<pages'>> \o grid_cell(idx))
    /\ pc' = "raised"
    /\ ret' = label_outcome(current_row, product_type)
    /\ UNCHANGED <<args, sessionVars, idx, drawn>>

\* line 105: c.save() closes the last page and writes the document
Save ==
    /\ pc = "render"
    /\ idx = Len(selected_rows)
    /\ pages' = pages + 1
    /\ pc' = "saved"
    /\ UNCHANGED <<args, ret, sessionVars, idx, cells, drawn>>

GoodRow ==
    MkRow(<<"7">>, <<"N", "o">>, <<"1", ",", " ", "R", "d">>, <<"0", "7", "1">>,
          NaN, NaN)
BlankRow == MkRow(<<" ">>, <<" ">>, <<" ">>, <<" ">>, <<" ">>, <<" ">>)
Sup2Row == MkRow(<<"sup2">>, <<"N", "o">>, <<"R", "d">>, NaN, NaN, NaN)

\* create_labels_pdf_with_text on n records, the last of them blank or not
InitRender ==
    /\ pc = "render"
    /\ args = None
    /\ ret = None
    /\ product_type \in ProductTypes
    /\ \E n \in 1..MaxRecords, last \in {GoodRow, BlankRow} :
           /\ uploaded_file = [i \in 1..n |-> IF i = n THEN last ELSE GoodRow]
           /\ selected_rows = [i \in 1..n |-> i]
           /\ input_ids = <<str(iloc(last, ID_COL))>>
    /\ selection = [method |-> "Choose from list", value |-> input_ids]
    /\ notice = "Found matching records."
    /\ button_offered = TRUE
    /\ tmpfiles = 1
    /\ NoRendering

SpecRender == InitRender /\ [][RenderRecord \/ RenderRaise \/ Save]_vars

(***************************************************************************)
(* The Streamlit session, lines 150-239.  Every user action sets one       *)
(* widget and reruns the whole script; the run ends with a notice and      *)
(* with the generate button rendered or not.  A click on the button reruns *)
(* the script with st.button() true and enters the generation of lines     *)
(* 228-235, which the rendering steps above carry out.                     *)
(***************************************************************************)
\* values of the identifier list uploader that are no list of lines
NoTxt == << <<"NoTxt">> >>
Undecodable == << <<"Undecodable">> >>

IsTable(f) == f # NoFile /\ f # Unreadable

DefaultSelection == [method |-> "Choose from list", value |-> <<>>]

\* lines 194-195: the stripped non-blank lines of the uploaded list
RECURSIVE read_ids(_)
read_ids(lines) ==
    IF lines = <<>> THEN <<>>
    ELSE (IF strip(Head(lines)) # <<>> THEN <<strip(Head(lines))>> ELSE <<>>)
             \o read_ids(Tail(lines))

\* lines 183-197: input_ids out of the selection widget
read_selection(sel) ==
    IF sel.method = "Choose from list" THEN sel.value
    ELSE IF sel.value = NoTxt \/ sel.value = Undecodable THEN <<>>
    ELSE read_ids(sel.value)

\* lines 209-225: some row's preview raises
preview_raises(df, pt, rows) ==
    \E k \in 1..Len(rows) :
        label_preview(df[rows[k]], pt) \in {IndexError, ValueError}

\* a script that offers the generate button whenever identifiers were given
run_selected_always(df, pt, ids) ==
    LET rows == concat_matches(df, ids)
    IN  [selected_rows |-> rows,
         notice |-> "Found matching records.",
         button_offered |-> TRUE]

\* lines 200-227 of a run without a click: filter, preview, offer the button
run_selected(df, pt, ids) ==
    LET rows == concat_matches(df, ids)
    IN  IF rows = <<>>
        THEN [selected_rows |-> rows,
              notice |-> "No matching IDs found.",
              button_offered |-> FALSE]
        ELSE IF preview_raises(df, pt, rows)
        THEN [selected_rows |-> rows,
              notice |-> "exception",
              button_offered |-> FALSE]
        ELSE [selected_rows |-> rows,
              notice |-> "Found matching records.",
              button_offered |-> TRUE]

\* lines 168-239: one run of the script without a click
script_run(pt, file, sel) ==
    IF file = NoFile
    THEN [input_ids |-> <<>>, selected_rows |-> <<>>,
          notice |-> "Upload your file to begin.", button_offered |-> FALSE]
    ELSE IF file = Unreadable
    THEN [input_ids |-> <<>>, selected_rows |-> <<>>,
          notice |-> "Error reading file", button_offered |-> FALSE]
    ELSE IF read_selection(sel) = <<>>
    THEN [input_ids |-> <<>>, selected_rows |-> <<>>,
          notice |-> "Please select or upload at least one ID.",
          button_offered |-> FALSE]
    ELSE [input_ids |-> read_selection(sel)]
             @@ run_selected(file, pt, read_selection(sel))

Rerun(pt, file, sel) ==
    LET run == script_run(pt, file, sel)
    IN  /\ pc = "idle"
        /\ product_type' = pt
        /\ uploaded_file' = file
        /\ selection' = sel
        /\ input_ids' = run.input_ids
        /\ selected_rows' = run.selected_rows
        /\ notice' = run.notice
        /\ button_offered' = run.button_offered
        /\ UNCHANGED <<pc, args, ret, tmpfiles, renderVars>>

\* a table of nine columns
NarrowTable == <<SubSeq(GoodRow, 1, 9)>>

SessionRows == {GoodRow, BlankRow, Sup2Row}
SessionFiles ==
    {NoFile, Unreadable, NarrowTable}
        \cup (SeqsUpTo(SessionRows, MaxSessionRows) \ {<<>>})

RawLines == {<<" ", "7", " ">>, <<" ">>, <<"Z">>}
TxtFiles == {NoTxt, Undecodable} \cup SeqsUpTo(RawLines, MaxTxtLines)

\* what st.multiselect can return: distinct options, in the order picked
Picks(df) ==
    {q \in SeqsUpTo({all_ids(df)[i] : i \in 1..Len(df)}, MaxPicked) :
         \A i, j \in 1..Len(q) : i # j => q[i] # q[j]}

\* line 150: the product type radio
SelectProductType ==
    \E pt \in ProductTypes : Rerun(pt, uploaded_file, selection)

\* line 166: the file uploader; the selection widgets start afresh unless
\* an identifier list stays uploaded beside a readable table
UploadFile ==
    \E file \in SessionFiles :
        Rerun(product_type, file,
              IF IsTable(file) /\ IsTable(uploaded_file)
                     /\ selection.method = "Upload ID list (txt)"
              THEN selection ELSE DefaultSelection)

\* line 182: the selection method radio
SelectMethod ==
    /\ IsTable(uploaded_file)
    /\ \E m \in {"Choose from list", "Upload ID list (txt)"} :
           Rerun(product_type, uploaded_file,
                 [method |-> m,
                  value |-> IF m = "Choose from list" THEN <<>> ELSE NoTxt])

\* line 188: the multi-select
PickIds ==
    /\ IsTable(uploaded_file)
    /\ selection.method = "Choose from list"
    /\ \E ids \in Picks(uploaded_file) :
           Rerun(product_type, uploaded_file,
                 [method |-> "Choose from list", value |-> ids])

\* line 191: the identifier list uploader
UploadIdList ==
    /\ IsTable(uploaded_file)
    /\ selection.method = "Upload ID list (txt)"
    /\ \E txt \in TxtFiles :
           Rerun(product_type, uploaded_file,
                 [method |-> "Upload ID list (txt)", value |-> txt])

\* lines 227-230: the click reruns the script on the same widgets, and
\* NamedTemporaryFile(delete=False) creates the transient file
ClickGenerate ==
    /\ pc = "idle"
    /\ button_offered
    /\ tmpfiles < MaxTmpFiles
    /\ tmpfiles' = tmpfiles + 1
    /\ pc' = "render"
    /\ ResetRendering
    /\ notice' = "Generating labels..."
    /\ UNCHANGED <<args, ret, product_type, uploaded_file, selection,
                   input_ids, selected_rows, button_offered>>

\* lines 232-235: the document is opened, offered for download and removed;
\* the canvas and the loop's locals are gone
HandOff ==
    /\ pc = "saved"
    /\ tmpfiles' = tmpfiles - 1
    /\ notice' = "Labels generated! Download below:"
    /\ pc' = "idle"
    /\ ResetRendering
    /\ UNCHANGED <<args, ret, product_type, uploaded_file, selection,
                   input_ids, selected_rows, button_offered>>

\* the exception of line 231 leaves the script run: lines 232-235 are skipped
ScriptAborts ==
    /\ pc = "raised"
    /\ notice' = "exception"
    /\ pc' = "idle"
    /\ ret' = None
    /\ ResetRendering
    /\ UNCHANGED <<args, product_type, uploaded_file, selection, input_ids,
                   selected_rows, button_offered, tmpfiles>>

Init ==
    /\ pc = "idle"
    /\ args = None
    /\ ret = None
    /\ FreshSession
    /\ NoRendering

Next ==
    \/ SelectProductType
    \/ UploadFile
    \/ SelectMethod
    \/ PickIds
    \/ UploadIdList
    \/ ClickGenerate
    \/ RenderRecord
    \/ RenderRaise
    \/ Save
    \/ HandOff
    \/ ScriptAborts

Spec == Init /\ [][Next]_vars

(***************************************************************************)
(* Properties of split_address (SpecSplit).                                *)
(***************************************************************************)
HasComma(s) == \E i \in 1..Len(s) : s[i] = ","
Trimmed(s) == s = <<>> \/ (~isspace(s[1]) /\ ~isspace(s[Len(s)]))
TooLong == ~isna(args.address)
              /\ Len(strip(args.address)) > args.max_line_length

\* C5 as stated: a trimmed address longer than max_line_length is split
\* at the last comma at or before the overflow point, the comma staying on
\* the first line, so the first line never exceeds max_line_length; with no
\* comma the address comes back as one line.
C5_SplitAtCommaBeforeOverflow ==
    (pc = "returned" /\ TooLong) =>
        LET a == strip(args.address)
        IN  IF ~HasComma(a) THEN ret = <<a>>
            ELSE /\ Len(ret) = 2
                 /\ ret[1][Len(ret[1])] = ","
                 /\ Len(ret[1]) <= args.max_line_length
                 /\ Trimmed(ret[1]) /\ Trimmed(ret[2])

\* C5 amended: a trimmed address longer than max_line_length is split at
\* the last comma of the whole address, wherever it is: two trimmed lines,
\* the first ending with that comma (and possibly longer than
\* max_line_length), the second holding no comma, which joined by the
\* whitespace removed give back the address; with no comma the address
\* comes back as one line.
C5_SplitAtLastComma ==
    (pc = "returned" /\ TooLong) =>
        LET a == strip(args.address)
        IN  IF ~HasComma(a) THEN ret = <<a>>
            ELSE /\ Len(ret) = 2
                 /\ ret[1][Len(ret[1])] = ","
                 /\ ~HasComma(ret[2])
                 /\ Trimmed(ret[1]) /\ Trimmed(ret[2])
                 /\ \E k \in 0..Len(a) : ret[1] \o Rep(" ", k) \o ret[2] = a

\* an address over the default limit was split into a first line that is
\* itself over the limit
C5_Witness ==
    /\ pc = "returned" /\ TooLong
    /\ args.max_line_length = DEFAULT_MAX_LINE_LENGTH
    /\ Len(ret) = 2
    /\ Len(ret[1]) > DEFAULT_MAX_LINE_LENGTH

(***************************************************************************)
(* Properties of the identifier formatting (SpecFormat).                   *)
(***************************************************************************)
AllDecimal(s) == s # <<>> /\ \A i \in 1..Len(s) : IsDecimalChar(s[i])
PaperPrefix == <<"P", " ", "-", " ">>

\* C6 as stated: under Paper a purely numeric identifier becomes "P - " and
\* the number zero-padded to exactly 4 digits; any other identifier, and
\* any identifier under Theory, is only trimmed; preview and document agree.
C6_ExactlyFourDigits ==
    pc = "returned" =>
        LET s == strip(str(args.cell))
        IN  /\ ret.pdf = ret.preview
            /\ IF is_paper(args.product_type) /\ AllDecimal(s)
               THEN /\ Len(ret.pdf) = 8
                    /\ SubSeq(ret.pdf, 1, 4) = PaperPrefix
                    /\ AllDecimal(SubSeq(ret.pdf, 5, 8))
                    /\ int(SubSeq(ret.pdf, 5, 8)) = int(s)
               ELSE ret.pdf = s

\* C6 amended: under Paper an identifier made only of the decimal digits
\* 0-9 becomes "P - " and its value zero-padded to at least 4 digits
\* (exactly 4 below 10000, all its digits from 10000 on); an identifier
\* that str.isdigit rejects, and any identifier under Theory, is only
\* trimmed; preview and document agree on every identifier (both raise
\* ValueError on a digit string int() rejects).
C6_AtLeastFourDigits ==
    pc = "returned" =>
        LET s == strip(str(args.cell))
            d == SubSeq(ret.pdf, 5, Len(ret.pdf))
        IN  /\ ret.pdf = ret.preview
            /\ (is_paper(args.product_type) /\ AllDecimal(s)) =>
                   /\ SubSeq(ret.pdf, 1, 4) = PaperPrefix
                   /\ AllDecimal(d)
                   /\ int(d) = int(s)
                   /\ Len(d) >= 4
                   /\ (int(s) < 10000 => Len(d) = 4)
                   /\ (Len(d) > 4 => d[1] # "0")
            /\ (~is_paper(args.product_type) \/ ~isdigit(s)) => ret.pdf = s

\* a numeric Paper identifier of value 10000 or more was formatted
C6_Witness ==
    /\ pc = "returned"
    /\ is_paper(args.product_type)
    /\ AllDecimal(strip(str(args.cell)))
    /\ int(strip(str(args.cell))) >= 10000
    /\ Len(ret.pdf) > 8

(***************************************************************************)
(* Properties of the label composer (SpecLabel).                           *)
(***************************************************************************)
Composed == pc = "returned" /\ ret.outcome \notin {IndexError, ValueError}

\* C1: the lines drawn for a record are at most 6 and none of them is
\* empty or whitespace-only.
C1_AtMostSixNonBlankLines ==
    Composed =>
        /\ Len(ret.lines_to_draw) <= 6
        /\ \A i \in 1..Len(ret.lines_to_draw) :
               strip(ret.lines_to_draw[i]) # <<>>

\* a label of six lines was composed from a row that also has blank cells
C1_Witness ==
    /\ Composed
    /\ Len(ret.lines_to_draw) = 6
    /\ \E k \in 1..Len(args.row) :
           ~isna(args.row[k]) /\ strip(args.row[k]) = <<>>

\* the row with every missing cell replaced by the empty string
NaNAsEmpty(row) == [k \in 1..Len(row) |-> IF isna(row[k]) THEN <<>> ELSE row[k]]

\* C7: a missing (NaN) cell is composed as the empty string: the label's
\* lines are those of the same row with "" in place of each missing cell,
\* so a missing phone adds no line and no placeholder text is drawn.
C7_MissingTreatedAsEmpty ==
    Composed =>
        ret.lines_to_draw = lines_to_draw(NaNAsEmpty(args.row), args.product_type)

(***************************************************************************)
(* Properties of the selection filter (SpecSelect).                        *)
(***************************************************************************)
\* the rows of args.df whose stringified identifier is the j-th request
Matches(j) ==
    {i \in 1..Len(args.df) : str(args.df[i][1]) = args.input_ids[j]}

\* number of output rows that precede the j-th request's group
RECURSIVE Offset(_)
Offset(j) == IF j = 1 THEN 0 ELSE Offset(j - 1) + Cardinality(Matches(j - 1))

\* the request group an output position lies in
GroupOf(p) ==
    CHOOSE j \in 1..Len(args.input_ids) :
        Offset(j) < p /\ p <= Offset(j) + Cardinality(Matches(j))

\* C2: the output is, for each requested identifier in request order, all
\* rows whose stringified identifier equals it, in source order, every
\* matching source row once per request of its identifier, and no row with
\* an identifier that was not requested.
C2_GroupsInRequestOrder ==
    pc = "returned" =>
        /\ Len(ret) = Offset(Len(args.input_ids) + 1)
        /\ \A j \in 1..Len(args.input_ids) :
               LET group == SubSeq(ret, Offset(j) + 1,
                                   Offset(j) + Cardinality(Matches(j)))
               IN  /\ {group[k] : k \in 1..Len(group)} = Matches(j)
                   /\ \A k \in 1..(Len(group) - 1) : group[k] < group[k + 1]
        /\ \A p \in 1..Len(ret) :
               \E j \in 1..Len(args.input_ids) :
                   str(args.df[ret[p]][1]) = args.input_ids[j]

\* two identifiers were requested and matched, one of them by several rows,
\* and a row with a non-requested identifier was left out
C2_Witness ==
    /\ pc = "returned"
    /\ \E j \in 1..Len(args.input_ids) : Cardinality(Matches(j)) >= 2
    /\ \E j, k \in 1..Len(args.input_ids) :
           /\ args.input_ids[j] # args.input_ids[k]
           /\ Matches(j) # {} /\ Matches(k) # {}
    /\ \E i \in 1..Len(args.df) : \A p \in 1..Len(ret) : ret[p] # i

\* C3 as stated: the output follows source row order, whatever the order
\* or repetition of the requested identifiers.
C3_SourceOrder ==
    pc = "returned" =>
        \A p, q \in 1..Len(ret) : ret[p] < ret[q] => p < q

\* C3 amended: the output follows request order first and source row
\* order only inside the group of one requested identifier: a row of an
\* earlier request's group precedes every row of a later request's group,
\* and of two rows of the same group the one earlier in the source comes
\* first; a repeated identifier yields its group again.
C3_RequestOrderThenSourceOrder ==
    pc = "returned" =>
        /\ Len(ret) = Offset(Len(args.input_ids) + 1)
        /\ \A p \in 1..Len(ret) :
               str(args.df[ret[p]][1]) = args.input_ids[GroupOf(p)]
        /\ \A p, q \in 1..Len(ret) :
               (p < q /\ GroupOf(p) = GroupOf(q)) => ret[p] < ret[q]

\* an output in which a later source row precedes an earlier one
C3_Witness ==
    /\ pc = "returned"
    /\ \E p, q \in 1..Len(ret) : p < q /\ ret[p] > ret[q]

(***************************************************************************)
(* Properties of the paginator (SpecRender).                               *)
(***************************************************************************)
\* C4: rendering N >= 1 records closes a page exactly before each record
\* whose index is a nonzero multiple of 16, so the document has ceil(N/16)
\* pages; record i lies on page i div 16, row (i mod 16) div 2, column
\* (i mod 16) mod 2, and no two records share a cell.
C4_Pagination ==
    /\ \A k \in 1..Len(cells) :
           LET i == k - 1
           IN  cells[k] = <<i \div 16, (i % 16) \div 2, (i % 16) % 2>>
    /\ \A k, l \in 1..Len(cells) : k # l => cells[k] # cells[l]
    /\ pc = "saved" =>
           LET N == Len(selected_rows)
           IN  /\ Len(cells) = N
               /\ pages = (N + 15) \div 16

\* seventeen or more records were rendered and saved, the 17th in cell
\* (0,0) of the second page
C4_Witness ==
    /\ pc = "saved"
    /\ Len(selected_rows) >= 17
    /\ cells[17] = <<1, 0, 0>>
    /\ pages >= 2

(***************************************************************************)
(* Properties of the session (Spec).                                       *)
(***************************************************************************)
Generating == pc \in {"render", "saved", "raised"}

\* C8: once a generate action has finished, whatever its outcome, the
\* transient file it created is gone: no transient file exists between
\* user actions.
C8_NoTransientFileBetweenActions == pc = "idle" => tmpfiles = 0

\* C10: every record that reaches the renderer through the selection
\* filter has at least one line to draw, so the spacing never divides by
\* zero and rendering runs to c.save().
C10_LineCountNeverZero ==
    (Generating /\ idx < Len(selected_rows)) =>
        /\ Len(lines_to_draw(current_row, product_type)) > 0
        /\ pc # "raised"

\* C9: a document is generated only with a table loaded, a non-empty
\* selection, at least one matching row and the generate button clicked;
\* an empty selection ends in the 'select at least one ID' notice with
\* nothing filtered, a selection matching no row ends in the 'no matching
\* IDs' notice, and neither offers the generate action nor is an error.
C9_GenerateOnlyWhenSelected ==
    /\ (Generating \/ button_offered) =>
           /\ IsTable(uploaded_file)
           /\ input_ids # <<>>
           /\ selected_rows # <<>>
           /\ button_offered
    /\ (pc = "idle" /\ IsTable(uploaded_file) /\ input_ids = <<>>) =>
           /\ notice = "Please select or upload at least one ID."
           /\ selected_rows = <<>>
           /\ ~button_offered
    /\ (pc = "idle" /\ input_ids # <<>> /\ selected_rows = <<>>) =>
           /\ notice = "No matching IDs found."
           /\ ~button_offered

\* a document of every selected row was written for a request of two
\* identifiers, after the generate button was clicked
C9_Witness ==
    /\ pc = "saved"
    /\ Len(drawn) = Len(selected_rows)
    /\ Len(input_ids) = 2

====
